---- MODULE Spec2Model ----
(***************************************************************************)
(* Silver inventory tracker (src/app.py): the warehouse-report extraction  *)
(* (load_data), the report download with its retry loop                    *)
(* (download_and_save), the history store (inventory_history.csv) with its *)
(* backfill, and the cached source adapters.                               *)
(*                                                                         *)
(* Specifications:                                                         *)
(*   SpecGrid   load_data applied to bounded raw grids                     *)
(*   Spec       one session: download_and_save, backfill_historical_data   *)
(*              and the passing of days, run one after the other           *)
(*   SpecConc   two sessions writing the history file at once, step by     *)
(*              step                                                       *)
(*   SpecCache  the script runs of one browser session (page load, Refresh *)
(*              All) over the st.cache_data store, as time passes          *)
(*   SpecTrend  get_withdrawal_trend applied to bounded history files      *)
(*   SpecPage   the script runs of a session opened over a local report    *)
(*              file of some age: the startup download, the indicators the *)
(*              page body derives                                          *)
(*   SpecAdapters  one call of a source adapter on an answer of its        *)
(*              upstream, or of download_and_save over a local file        *)
(***************************************************************************)
EXTENDS Integers, Sequences, FiniteSets, TLC

VARIABLES
    grid,       \* SpecGrid: the raw grid pd.read_excel(header=None) decoded
    extracted,  \* SpecGrid: what load_data returned for it ("called" FALSE before)
    today,      \* the calendar day datetime.now() falls on (a day number)
    histFile,   \* inventory_history.csv: whether it exists, and its rows in file order
    localExcel, \* silver_stocks_data.xls: whether it exists, and its content
    excelAt,    \* the modification time of silver_stocks_data.xls (a clock reading)
    genuine,    \* the dates whose history row is as download_and_save wrote it (ghost)
    last,       \* the latest call and how it ended (ghost)
    conc,       \* SpecConc: the store the writers started from, each writer's position
    clock,      \* seconds since the server process started
    cache,      \* the st.cache_data store: per adapter, the value kept and when
    session,    \* st.session_state of the browser session
    run,        \* the latest script run or adapter call, and what it ran (ghost)
    view        \* what the page body computed in the latest script run ("op" none before)

gridVars == <<grid, extracted>>

storeVars == <<today, histFile, localExcel, excelAt, genuine, last>>

webVars == <<clock, cache, session, run, view>>

vars == <<grid, extracted, today, histFile, localExcel, excelAt, genuine, last,
          conc, clock, cache, session, run, view>>

(***************************************************************************)
(* Bounds of the model.                                                    *)
(***************************************************************************)
\* rows of a raw grid
MaxGridRows == 4

\* the day the model starts on, and how many days it lets pass
FirstDay == 50

MaxTicks == 1

\* days of a year (365 in the code), scaled so that a history of years_back
\* years stays a short sequence, and the archive's WeeksBack weeks stay short
\* of days_span - 5 days as the code's 52 weeks do of 1090 days
DaysPerYear == 7

\* weekly archive snapshots fetch_historical_comex_data asks for (52 in the code)
WeeksBack == 1

\* hash(str(date)) depends on the process's hash seed: the seeds tried
MaxHashSeed == 0

\* SpecCache: the seconds the clock moves at a time, and how often it moves
ClockStep == 1800

MaxClockSteps == 2

\* SpecTrend: the days before today a history entry may lie on
TrendSpan == 13

(***************************************************************************)
(* Cells of a raw grid: NaN (empty), a text, or a number.                  *)
(***************************************************************************)
NaN == [k |-> "nan", s |-> "", n |-> 0]

Str(t) == [k |-> "str", s |-> t, n |-> 0]

Num(v) == [k |-> "num", s |-> "", n |-> v]

\* pd.isna on a scalar
IsNa(c) == c.k = "nan"

\* str(v): a text is itself, a number its decimal digits, NaN is "nan"
StrOf(c) ==
    CASE c.k = "str" -> c.s
      [] c.k = "num" -> ToString(c.n)
      [] OTHER -> "nan"

\* str.upper() on the texts the model's grids use (all others are upper case)
Upper(t) ==
    CASE t = "Total Registered" -> "TOTAL REGISTERED"
      [] t = "Total Eligible" -> "TOTAL ELIGIBLE"
      [] t = "Registered" -> "REGISTERED"
      [] t = "Eligible" -> "ELIGIBLE"
      [] t = "nan" -> "NAN"
      [] OTHER -> t

\* The marker tokens that occur as substrings of an upper-case text.
MarkersIn(t) ==
    CASE t = "RECEIVED" -> {"RECEIVED"}
      [] t = "WITHDRAWN" -> {"WITHDRAWN"}
      [] t = "DEPOSITORY" -> {"DEPOSITORY"}
      [] t = "DEPOSITORY_1" -> {"DEPOSITORY"}
      [] t = "COMEX DEPOSITORY WAREHOUSE STOCKS" -> {"DEPOSITORY"}
      [] t = "TOTAL REGISTERED" -> {"TOTAL", "TOTAL REGISTERED"}
      [] t = "TOTAL ELIGIBLE" -> {"TOTAL", "TOTAL ELIGIBLE"}
      [] t = "COMBINED TOTAL" -> {"TOTAL"}
      [] t = "TOTAL TODAY" -> {"TOTAL"}
      [] OTHER -> {}

\* `token in text.upper()`, and str.contains(token, case=False)
ContainsCI(t, token) == token \in MarkersIn(Upper(t))

\* pd.to_numeric(v, errors="coerce") on a scalar: a number is itself, a text
\* of digits parses, any other text (thousands separators included) and NaN
\* give NaN
ToNumeric(c) ==
    CASE c.k = "num" -> c
      [] c.k = "str" /\ c.s = "5000000" -> Num(5000000)
      [] OTHER -> NaN

(***************************************************************************)
(* Sequence helpers.                                                       *)
(***************************************************************************)
RECURSIVE TrueIndicesFrom(_, _, _)
TrueIndicesFrom(flags, i, acc) ==
    IF i > Len(flags) THEN acc
    ELSE TrueIndicesFrom(flags, i + 1, IF flags[i] THEN Append(acc, i) ELSE acc)

\* the increasing sequence of the positions at which flags is TRUE
TrueIndices(flags) == TrueIndicesFrom(flags, 1, <<>>)

RowIsEmpty(row) == \A j \in 1..Len(row) : IsNa(row[j])

(***************************************************************************)
(* load_data, src/app.py 449-525.  A frame keeps its index labels: dropna  *)
(* removes rows and leaves the labels of the others as they were.          *)
(***************************************************************************)
\* raw = raw.dropna(how="all").dropna(axis=1, how="all")
\* index: the 0-based labels of the kept rows; rows: their cells in the kept columns
Dropna(g) ==
    LET keptRows == TrueIndices([i \in 1..Len(g) |-> ~RowIsEmpty(g[i])])
        width == IF g = <<>> THEN 0 ELSE Len(g[1])
        keptCols == TrueIndices([j \in 1..width |->
                        \E i \in 1..Len(g) : ~IsNa(g[i][j])])
    IN  [index |-> [p \in 1..Len(keptRows) |-> keptRows[p] - 1],
         rows |-> [p \in 1..Len(keptRows) |->
                     [q \in 1..Len(keptCols) |-> g[keptRows[p]][keptCols[q]]]]]

\* row_str contains both 'RECEIVED' and 'WITHDRAWN' (a token without a blank
\* lies inside one cell of the blank-joined row text)
RowHasToken(row, token) ==
    \E j \in 1..Len(row) : ~IsNa(row[j]) /\ ContainsCI(StrOf(row[j]), token)

IsHeaderRow(row) == RowHasToken(row, "RECEIVED") /\ RowHasToken(row, "WITHDRAWN")

\* isinstance(val, str) and "DEPOSITORY" in val.upper() and len(val.strip()) < 30
\* (no text of the model has surrounding blanks)
IsDepositoryCell(c) ==
    c.k = "str" /\ ContainsCI(c.s, "DEPOSITORY") /\ Len(c.s) < 30

\* the position in raw of the first row satisfying the test, 0 if none
FirstPos(flags) ==
    IF \E p \in 1..Len(flags) : flags[p]
    THEN CHOOSE p \in 1..Len(flags) : flags[p] /\ \A q \in 1..(p - 1) : ~flags[q]
    ELSE 0

\* header_idx: the LABEL of the header row (-1: raw is empty, raw.index[0] raises)
HeaderIdx(raw) ==
    LET n == Len(raw.rows)
        strong == FirstPos([p \in 1..n |-> IsHeaderRow(raw.rows[p])])
        weak == FirstPos([p \in 1..n |-> IsDepositoryCell(raw.rows[p][1])])
    IN  IF strong # 0 THEN raw.index[strong]
        ELSE IF weak # 0 THEN raw.index[weak]
        ELSE IF n > 0 THEN raw.index[1]
        ELSE -1

RECURSIVE Ffill(_)
\* Series.ffill(): a NaN takes the nearest non-NaN value to its left
Ffill(header) ==
    IF header = <<>> THEN <<>>
    ELSE LET n == Len(header)
             r == Ffill(SubSeq(header, 1, n - 1))
         IN  IF IsNa(header[n]) /\ n > 1 THEN Append(r, r[n - 1])
             ELSE Append(r, header[n])

\* deduped_cols: a name seen before gets the suffix _<count of earlier sightings>
DedupedCols(header) ==
    [j \in 1..Len(header) |->
        LET name == StrOf(header[j])
            earlier == Cardinality({i \in 1..(j - 1) : StrOf(header[i]) = name})
        IN  IF earlier = 0 THEN name ELSE name \o "_" \o ToString(earlier)]

\* df = raw.iloc[header_idx + 1:]: a POSITIONAL slice taken at the header's label
RowsBelow(raw, headerIdx) ==
    LET n == Len(raw.rows)
        first == headerIdx + 2
    IN  IF first > n THEN <<>> ELSE SubSeq(raw.rows, first, n)

\* df[df.iloc[:, 0].astype(str).str.contains(token, case=False, na=False)]
RowsMatching(rows, token) ==
    SelectSeq(rows, LAMBDA r : ContainsCI(StrOf(r[1]), token))

NoFrame == [isNone |-> TRUE, columns |-> <<>>, rows |-> <<>>]

Frame(columns, rows) == [isNone |-> FALSE, columns |-> columns, rows |-> rows]

\* a faulty FrameEmpty: the `if totals.empty` test never fires
FrameEmptyNever(f) == FALSE

\* DataFrame.empty: an axis of length 0
FrameEmpty(f) == f.columns = <<>> \/ f.rows = <<>>

\* load_data on a decoded grid: (totals, df); an exception gives (None, None)
LoadGrid(g) ==
    LET raw == Dropna(g)
        headerIdx == HeaderIdx(raw)
    IN  IF headerIdx < 0 THEN [totals |-> NoFrame, df |-> NoFrame]
        ELSE
        LET headerPos == CHOOSE p \in 1..Len(raw.index) : raw.index[p] = headerIdx
            columns == DedupedCols(Ffill(raw.rows[headerPos]))
            rows == RowsBelow(raw, headerIdx)
            df == Frame(columns, rows)
            regRows == RowsMatching(rows, "TOTAL REGISTERED")
            eligRows == RowsMatching(rows, "TOTAL ELIGIBLE")
            anyTotal == RowsMatching(rows, "TOTAL")
            lastCol == Len(columns)
        IN  IF regRows # <<>> /\ eligRows # <<>>
            THEN [totals |-> Frame(<<"Registered", "Eligible">>,
                                   <<<<regRows[1][lastCol], eligRows[1][lastCol]>>>>),
                  df |-> df]
            ELSE IF FrameEmpty(Frame(columns, anyTotal))
            THEN [totals |-> NoFrame, df |-> df]
            ELSE [totals |-> Frame(columns, anyTotal), df |-> df]

(***************************************************************************)
(* SpecGrid: load_data applied to every grid of up to MaxGridRows rows     *)
(* drawn from the report's kinds of row, with a fully empty column put     *)
(* before, between or after the populated ones.                            *)
(***************************************************************************)
\* the registered and eligible grand totals of the sample report
SampleRegistered == 113269767

SampleEligible == 301972070

HeaderRow == <<Str("DEPOSITORY"), Str("RECEIVED"), Str("WITHDRAWN")>>

BlankRow == <<NaN, NaN, NaN>>

TitleRow == <<Str("COMEX DEPOSITORY WAREHOUSE STOCKS"), NaN, NaN>>

WarehouseRow == <<Str("BRINKS"), Num(7), Num(9)>>

TotalRegisteredRow == <<Str("TOTAL REGISTERED"), NaN, Num(SampleRegistered)>>

TotalEligibleRow == <<Str("Total Eligible"), NaN, Num(SampleEligible)>>

CombinedTotalRow == <<Str("COMBINED TOTAL"), Num(SampleRegistered), Num(SampleEligible)>>

\* a header row that repeats a name next to its suffixed form
SuffixedHeaderRow == <<Str("DEPOSITORY"), Str("DEPOSITORY_1"), Str("DEPOSITORY")>>

RowPool ==
    {HeaderRow, BlankRow, TitleRow, WarehouseRow, TotalRegisteredRow,
     TotalEligibleRow, CombinedTotalRow, SuffixedHeaderRow}

\* where a fully empty column is put: 0 none, 1 before, 2 between, 4 after
ColumnPads == {0, 1, 2, 4}

PadRow(row, pad) ==
    IF pad = 0 THEN row
    ELSE SubSeq(row, 1, pad - 1) \o <<NaN>> \o SubSeq(row, pad, Len(row))

PadGrid(rows, pad) == [i \in 1..Len(rows) |-> PadRow(rows[i], pad)]

(***************************************************************************)
(* The two files.  A history row is (Date, Registered, Eligible); Date is  *)
(* the day number the text YYYY-MM-DD stands for (strftime is one-to-one   *)
(* on days and read_csv hands the text back unchanged, so two Date texts   *)
(* are equal exactly when the days are), the other two are the numbers     *)
(* to_csv wrote.                                                           *)
(***************************************************************************)
Garbage == [decodable |-> FALSE, grid |-> <<>>]

Xls(g) == [decodable |-> TRUE, grid |-> g]

NoExcel == [exists |-> FALSE, content |-> Garbage]

ExcelOf(payload) == [exists |-> TRUE, content |-> payload]

NoHistory == [exists |-> FALSE, rows |-> <<>>]

HistoryOf(rows) == [exists |-> TRUE, rows |-> rows]

(***************************************************************************)
(* The payloads the report server may send.                                *)
(***************************************************************************)
TotalRegisteredRowOf(r) == <<Str("TOTAL REGISTERED"), NaN, Num(r)>>

TotalEligibleRowOf(e) == <<Str("Total Eligible"), NaN, Num(e)>>

GoodReport(r, e) ==
    Xls(<<TitleRow, HeaderRow, WarehouseRow, TotalRegisteredRowOf(r),
          TotalEligibleRowOf(e)>>)

\* a report whose header sits below an empty row
LeadingBlankReport ==
    Xls(<<BlankRow, HeaderRow, TotalRegisteredRowOf(SampleRegistered),
          TotalEligibleRowOf(SampleEligible)>>)

\* a report without any aggregate row
NoTotalsReport == Xls(<<HeaderRow, WarehouseRow>>)

\* a report with one combined total row under named columns
NamedColumnsReport ==
    Xls(<<<<Str("DEPOSITORY"), Str("Registered"), Str("Eligible")>>,
          <<Str("COMBINED TOTAL"), Num(112000000), Num(300000000)>>>>)

\* a report with one combined total row whose Eligible cell is empty
EligibleMissingReport ==
    Xls(<<<<Str("DEPOSITORY"), Str("Registered"), Str("Eligible")>>,
          <<Str("COMBINED TOTAL"), Num(SampleRegistered), NaN>>>>)

\* a report with one combined total row under the usual header
UnnamedColumnsReport == Xls(<<HeaderRow, CombinedTotalRow>>)

Payloads ==
    {GoodReport(SampleRegistered, SampleEligible), GoodReport(5000000, 50000000),
     LeadingBlankReport, NoTotalsReport, NamedColumnsReport, EligibleMissingReport,
     UnnamedColumnsReport, Garbage}

\* the reports a local file may hold when the page is opened
PageReports ==
    Payloads \cup {GoodReport(100000000, 300000000), GoodReport(0, 300000000),
                   GoodReport(0, 0)}

Entry(date, reg, elig) == [Date |-> date, Registered |-> reg, Eligible |-> elig]

\* elig_val = 301_972_070, the default estimate (also the backfill's last row)
DefaultEligible == 301972070

\* current_value = 113_269_767, the backfill's default anchor
DefaultCurrent == 113269767

\* load_data(): no file, or a file read_excel cannot decode, gives (None, None).
\* LoadedReports holds LoadGrid of each report the server may send, computed once.
LoadedReports == [g \in {p.grid : p \in PageReports} |-> LoadGrid(g)]

LoadData(excel) ==
    IF excel.exists /\ excel.content.decodable
    THEN LoadedReports[excel.content.grid]
    ELSE [totals |-> NoFrame, df |-> NoFrame]

\* the position of a column name in totals.columns (0: not a column)
ColumnPos(columns, name) == FirstPos([j \in 1..Len(columns) |-> columns[j] = name])

\* reg_val: the 'Registered' column of the first totals row, else its first column
RegVal(totals) ==
    IF ColumnPos(totals.columns, "Registered") # 0
    THEN ToNumeric(totals.rows[1][ColumnPos(totals.columns, "Registered")])
    ELSE ToNumeric(totals.rows[1][1])

\* elig_val: the 'Eligible' column of the first totals row, else None
EligVal(totals) ==
    IF ColumnPos(totals.columns, "Eligible") # 0
    THEN ToNumeric(totals.rows[1][ColumnPos(totals.columns, "Eligible")])
    ELSE NaN

RECURSIVE KeepFirstFrom(_, _, _, _)
KeepFirstFrom(rows, i, seen, acc) ==
    IF i > Len(rows) THEN acc
    ELSE IF rows[i].Date \in seen THEN KeepFirstFrom(rows, i + 1, seen, acc)
    ELSE KeepFirstFrom(rows, i + 1, seen \cup {rows[i].Date}, Append(acc, rows[i]))

\* a faulty DropDuplicates: keep="first"
DropDuplicatesKeepFirst(rows) == KeepFirstFrom(rows, 1, {}, <<>>)

\* a faulty DropDuplicates: the duplicates stay
DropDuplicatesNot(rows) == rows

RECURSIVE KeepLastFrom(_, _, _, _)
\* the rows from position i down to 1 whose Date is not among `seen`, the
\* Dates of the rows kept so far, put before those
KeepLastFrom(rows, i, seen, acc) ==
    IF i = 0 THEN acc
    ELSE IF rows[i].Date \in seen THEN KeepLastFrom(rows, i - 1, seen, acc)
    ELSE KeepLastFrom(rows, i - 1, seen \cup {rows[i].Date}, <<rows[i]>> \o acc)

\* drop_duplicates(subset=["Date"], keep="last"): of the rows of one Date the
\* last stays, at its place
DropDuplicates(rows) == KeepLastFrom(rows, Len(rows), {}, <<>>)

\* a faulty Upsert: the entry alone is written, whatever the file held
UpsertAlone(hist, entry) == HistoryOf(<<entry>>)

\* src/app.py 423-436: the entry is appended and the day's older row dropped;
\* with no file yet, the entry alone is written
Upsert(hist, entry) ==
    IF hist.exists
    THEN HistoryOf(DropDuplicates(Append(hist.rows, entry)))
    ELSE HistoryOf(<<entry>>)

(***************************************************************************)
(* download_and_save, src/app.py 392-446.  Attempts(...) is the set of the *)
(* results the call can end with from attempt number `attempt` on, over    *)
(* every outcome of the network call, the file write, the payload received *)
(* and the history file's I/O.                                             *)
(***************************************************************************)
\* what a call ends with: the (success, message) pair, the local file and
\* whether the call wrote it, the number of attempts made, what the last
\* attempt ended with, and the values of the history entry it recorded (0 when
\* none)
Result(ok, msg, excel, wrote, attempts, final, reg, elig) ==
    [ok |-> ok, msg |-> msg, excel |-> excel, wrote |-> wrote,
     attempts |-> attempts, final |-> final, reg |-> reg, elig |-> elig]

MsgUpdated == "Data updated successfully!"

MsgNoRegistered == "Could not extract registered value"

MsgNoTotals == "Could not parse totals from Excel file"

MsgFailed == "Download failed after 3 attempts"

\* lines 405-441, the body of the try block once resp.content is in the
\* local file: the result it returns when the history I/O does not raise (the
\* attempt's number is filled in by the loop)
AfterSave(excel) ==
    LET totals == LoadData(excel).totals
        reg == RegVal(totals)
        elig == IF IsNa(EligVal(totals)) THEN DefaultEligible ELSE EligVal(totals).n
    IN  IF totals.isNone \/ FrameEmpty(totals)
        THEN Result(FALSE, MsgNoTotals, excel, TRUE, 0, "no_totals", 0, 0)
        ELSE IF IsNa(reg)
        THEN Result(FALSE, MsgNoRegistered, excel, TRUE, 0, "no_registered", 0, 0)
        ELSE Result(TRUE, MsgUpdated, excel, TRUE, 0, "updated", reg.n, elig)

\* what one pass of the try block can do: return a result, or raise with the
\* local file as the pass left it
\*   net        requests.get or raise_for_status raises, the file is as before
\*   write      writing LOCAL_EXCEL raises, the file is left truncated
\*   history    read_csv, concat or to_csv of the history raises; to_csv is one
\*              call that replaces the file or fails, so the history is as before
TryBlock(attempt, excel, payloads) ==
    {[raised |-> TRUE, kind |-> "net", excel |-> excel, wrote |-> FALSE],
     [raised |-> TRUE, kind |-> "write", excel |-> ExcelOf(Garbage), wrote |-> TRUE]}
    \cup {[raised |-> FALSE,
           result |-> [AfterSave(ExcelOf(p)) EXCEPT !.attempts = attempt + 1]] :
            p \in payloads}
    \cup {[raised |-> TRUE, kind |-> "history", excel |-> ExcelOf(p), wrote |-> TRUE] :
            p \in {q \in payloads : AfterSave(ExcelOf(q)).ok}}

\* for attempt in range(3)
MaxAttempts == 3

\* a faulty Retries: the third failure is retried as well
RetriesAlways(attempt) == TRUE

\* a faulty Retries: only the first failure is retried
RetriesOnce(attempt) == attempt < 1

\* if attempt < 2: time.sleep(2); continue
Retries(attempt) == attempt < 2

\* except Exception as e: every kind of failure is caught
Caught(kind) == kind \in {"net", "write", "history"}

RECURSIVE Attempts(_, _, _, _)
\* the loop from attempt number `attempt` on.  A loop that runs out returns
\* None ("fell_through"); a failure the except clause does not catch leaves the
\* call as an exception ("escaped")
Attempts(attempt, excel, wrote, payloads) ==
    IF attempt >= MaxAttempts
    THEN {Result(FALSE, "", excel, wrote, attempt, "fell_through", 0, 0)}
    ELSE UNION {IF ~t.raised THEN {t.result}
                ELSE IF ~Caught(t.kind)
                THEN {Result(FALSE, "", t.excel, wrote \/ t.wrote, attempt + 1,
                             "escaped", 0, 0)}
                ELSE IF Retries(attempt)
                THEN Attempts(attempt + 1, t.excel, wrote \/ t.wrote, payloads)
                ELSE {Result(FALSE, MsgFailed, t.excel, wrote \/ t.wrote, attempt + 1,
                             t.kind, 0, 0)} :
                t \in TryBlock(attempt, excel, payloads)}

\* the local files a call can find: none yet, or a payload saved earlier
ExcelStates == {NoExcel} \cup {ExcelOf(p) : p \in Payloads}

\* the results download_and_save can end with, by the local file it finds
CallResults == [e \in ExcelStates |-> Attempts(0, e, FALSE, Payloads)]

\* a faulty HistoryAfter: the entry is written whatever the call ended with
HistoryAfterAlways(r, day, hist) == Upsert(hist, Entry(day, r.reg, r.elig))

\* the history file after a call that ended with result r on day `day`
HistoryAfter(r, day, hist) ==
    IF r.ok THEN Upsert(hist, Entry(day, r.reg, r.elig)) ELSE hist

NotCalled == [called |-> FALSE, totals |-> NoFrame, df |-> NoFrame]

(***************************************************************************)
(* backfill_historical_data, src/app.py 277-390.                           *)
(***************************************************************************)
years_back == 3

days_span == years_back * DaysPerYear

Max(a, b) == IF a >= b THEN a ELSE b

\* the least Date of the rows
OldestDate(rows) ==
    CHOOSE d \in {rows[i].Date : i \in 1..Len(rows)} :
        \A i \in 1..Len(rows) : d <= rows[i].Date

\* needs_backfill and current_value, lines 280-308
BackfillPlan(hist, day) ==
    IF ~hist.exists THEN [needed |-> TRUE, current |-> DefaultCurrent]
    ELSE IF Len(hist.rows) <= 1
    THEN [needed |-> TRUE,
          current |-> IF Len(hist.rows) > 0 THEN hist.rows[1].Registered
                      ELSE DefaultCurrent]
    ELSE IF day - OldestDate(hist.rows) < days_span - 5
    THEN [needed |-> TRUE, current |-> hist.rows[Len(hist.rows)].Registered]
    ELSE [needed |-> FALSE, current |-> DefaultCurrent]

\* the report the archive holds for a date, if the archive answers for it
ArchiveEntry(date) ==
    Entry(date, 120000000 + 1000000 * (date % 3), 300000000 + 1000000 * (date % 2))

\* fetch_historical_comex_data, lines 216-275: the weekly snapshots from
\* WeeksBack weeks ago to last week, oldest first, of the weeks whose archive
\* fetch and parse succeeded; None (here <<>>) if none did
ArchiveResults(day) ==
    {LET at == TrueIndices([k \in 1..WeeksBack |-> k \in got])
     IN  [p \in 1..Len(at) |-> ArchiveEntry(day - 7 * (WeeksBack - at[p] + 1))] :
     got \in SUBSET (1..WeeksBack)}

\* hash(str(single_date)) % 100 under the process's hash seed
HashOf(seed, date) == (seed * 53 + date * 17) % 100

\* base_value * decline_factor * daily_variation of lines 345-371, in whole
\* ounces: months_back is days_back / 30, the decline factors are taken in
\* 1/30000 and the daily variation in 1/1000
SyntheticRegistered(daysBack, h) ==
    LET tier ==
            IF daysBack > 900 THEN <<230000000, 36, 10>>
            ELSE IF daysBack > 720 THEN <<215000000, 30, 12>>
            ELSE IF daysBack > 540 THEN <<200000000, 24, 15>>
            ELSE IF daysBack > 360 THEN <<185000000, 18, 18>>
            ELSE IF daysBack > 270 THEN <<180000000, 12, 20>>
            ELSE IF daysBack > 180 THEN <<165000000, 9, 30>>
            ELSE IF daysBack > 90 THEN <<145000000, 6, 40>>
            ELSE <<125000000, 3, 50>>
        varied == (tier[1] \div 1000) * (950 + h)
        decline == 30000 - (30 * tier[2] - daysBack) * tier[3]
    IN  (varied \div 30000) * decline

\* elig_value = 300_000_000 * (1 + max(0, 36 - months_back) * 0.002)
SyntheticEligible(daysBack) == 300000000 + 20000 * Max(0, 1080 - daysBack)

\* historical_data of lines 334-382: one row a day from days_span days ago to
\* today, the last one set to (today, current_value, 301_972_070)
SyntheticRows(day, current, seed) ==
    [n \in 1..(days_span + 1) |->
        LET back == days_span - (n - 1)
            date == day - back
        IN  IF n = days_span + 1 THEN Entry(day, current, DefaultEligible)
            ELSE Entry(date,
                       Max(SyntheticRegistered(back, HashOf(seed, date)), current),
                       SyntheticEligible(back))]

\* the history file after backfill_historical_data, and what it returned
Backfilled(hist, day, archive, seed) ==
    LET plan == BackfillPlan(hist, day)
    IN  IF ~plan.needed THEN [hist |-> hist, returned |-> FALSE, path |-> "skip"]
        ELSE IF Len(archive) > 0
        THEN [hist |-> HistoryOf(archive), returned |-> TRUE, path |-> "archive"]
        ELSE [hist |-> HistoryOf(DropDuplicates(SyntheticRows(day, plan.current, seed))),
              returned |-> TRUE, path |-> "synthetic"]

(***************************************************************************)
(* The cached source adapters, src/app.py 35-214, and st.session_state.    *)
(***************************************************************************)
\* @st.cache_data(ttl=3600): seconds a stored return value is served for
ttl == 3600

\* what an adapter returns: None, or a value v (w is the second number of a
\* returned pair, src the source label of a returned (value, label) pair)
None == [none |-> TRUE, v |-> 0, w |-> 0, src |-> ""]

Value(v, w, src) == [none |-> FALSE, v |-> v, w |-> w, src |-> src]

\* Python truthiness of a returned number: None and 0 are falsy
Truthy(x) == ~x.none /\ x.v # 0

Adapters ==
    {"fetch_open_interest", "fetch_lbma_holdings", "fetch_sge_price",
     "fetch_slv_holdings", "fetch_spot_price", "fetch_global_silver"}

\* fetch_open_interest, lines 44-48: info.get('openInterest') if truthy
OpenInterestOf(oi) == IF Truthy(oi) THEN oi ELSE None

\* a faulty SlvHoldingsOf: the parsed number is accepted as it is
SlvHoldingsOfUnchecked(num) == num

\* fetch_slv_holdings, lines 170-180: a scraped number is accepted between
\* 100M and 1B ounces
SlvHoldingsOf(num) ==
    IF ~num.none /\ 100000000 < num.v /\ num.v < 1000000000 THEN num ELSE None

\* fetch_global_silver, lines 211-214
GlobalSilverOf(price) ==
    IF Truthy(price) /\ 5 < price.v /\ price.v < 200
    THEN Value(price.v, 0, "spot")
    ELSE None

\* how the code of an adapter ends: it returns value (kind ""), or an
\* exception of some kind leaves it
Outcome(kind, value) == [kind |-> kind, value |-> value]

\* a faulty ExceptException: only failed requests are caught
ExceptRequestException(kind) == kind \in {"transport", "http"}

\* except Exception / except: every kind of exception is caught
ExceptException(kind) == kind \in {"transport", "http", "decode", "parse"}

\* try: ... except Exception: return None
Except(o) ==
    IF o.kind # "" /\ ExceptException(o.kind) THEN Outcome("", None) ELSE o

\* The answer of an adapter's upstream: fail, how the request failed ("none":
\* it was answered with status 200 and a decodable body), and the two things
\* the adapter looks for in the answer, each NaN (not there), a text float()
\* rejects, or the number float() gives.
\*   fetch_open_interest   first: info['openInterest']
\*   fetch_slv_holdings    first: div.col-ounces div.data, second: the number
\*                         after "Ounces in Trust"
\*   fetch_spot_price      first: xagPrice
\*   fetch_sge_price       first: the SHAG price in RMB/kg, second: the CNY=X
\*                         rate in hundredths (NaN: fast_info raised)
Upstreams(a) ==
    LET failed(kinds) == {[fail |-> f, first |-> NaN, second |-> NaN] : f \in kinds}
        answers(firsts, seconds) ==
            {[fail |-> "none", first |-> x, second |-> y] : x \in firsts, y \in seconds}
    IN  CASE a = "fetch_open_interest" ->
                failed({"transport", "decode"})
                \cup answers({NaN, Num(0), Num(200000)}, {NaN})
          [] a = "fetch_slv_holdings" ->
                failed({"transport", "http"})
                \cup answers({NaN, Str("n/a"), Num(50000), Num(100000000),
                              Num(480000000), Num(1000000000)},
                             {NaN, Str(","), Num(480000000), Num(2000000000)})
          [] a \in {"fetch_spot_price", "fetch_global_silver"} ->
                failed({"transport", "http", "decode"})
                \cup answers({NaN, Str("n/a"), Num(30), Num(250)}, {NaN})
          [] a = "fetch_sge_price" ->
                failed({"transport", "http"})
                \cup answers({NaN, Str("-"), Num(7000)}, {NaN, Num(500), Num(720)})
          [] OTHER -> answers({NaN}, {NaN})

\* the statements of an adapter inside its outer try, on an upstream answer
TryBlockOf(a, up) ==
    LET number(c) == Value(c.n, 0, "")
    IN  CASE a = "fetch_open_interest" ->
                IF up.fail # "none" THEN Outcome(up.fail, None)
                ELSE IF IsNa(up.first) THEN Outcome("", None)
                ELSE Outcome("", OpenInterestOf(number(up.first)))
          [] a = "fetch_slv_holdings" ->
                \* the inner try (163-182) turns every exception into `pass`
                IF up.fail # "none" THEN Outcome("", None)
                ELSE IF up.first.k = "str" THEN Outcome("", None)
                ELSE IF up.first.k = "num" /\ ~SlvHoldingsOf(number(up.first)).none
                THEN Outcome("", SlvHoldingsOf(number(up.first)))
                ELSE IF up.second.k = "num"
                THEN Outcome("", SlvHoldingsOf(number(up.second)))
                ELSE Outcome("", None)
          [] a = "fetch_spot_price" ->
                IF up.fail # "none" THEN Outcome(up.fail, None)
                ELSE IF IsNa(up.first) THEN Outcome("", None)
                ELSE IF up.first.k = "str" THEN Outcome("parse", None)
                ELSE Outcome("", number(up.first))
          [] a = "fetch_sge_price" ->
                \* usdcny in hundredths: 7.25 unless 6 < rate < 9; the price in
                \* whole USD/oz, (rmb / 32.15) / usdcny rounded down
                LET usdcny == IF up.second.k = "num" /\ 600 < up.second.n
                                 /\ up.second.n < 900
                              THEN up.second.n ELSE 725
                IN  IF up.fail = "transport" THEN Outcome(up.fail, None)
                    ELSE IF up.fail # "none" \/ IsNa(up.first) THEN Outcome("", None)
                    ELSE IF up.first.k = "str" THEN Outcome("parse", None)
                    ELSE Outcome("", Value((up.first.n * 10000) \div (3215 * usdcny),
                                           up.first.n, ""))
          [] OTHER -> Outcome("", Value(836900000, 0, "Nov 2025 (LBMA)"))

\* the body of an adapter: fetch_global_silver has no try of its own and
\* calls fetch_spot_price, fetch_lbma_holdings returns a constant
Body(a, up) ==
    IF a = "fetch_global_silver"
    THEN LET price == Except(TryBlockOf("fetch_spot_price", up))
         IN  IF price.kind # "" THEN price
             ELSE Outcome("", GlobalSilverOf(price.value))
    ELSE IF a = "fetch_lbma_holdings" THEN TryBlockOf(a, up)
    ELSE Except(TryBlockOf(a, up))

\* what the body of an adapter can return when it runs, over the answers of
\* its upstream (None: the request failed or nothing was found in the answer)
Returns(a) ==
    IF a = "fetch_global_silver" THEN {}
    ELSE {Body(a, up).value : up \in Upstreams(a)}

\* an adapter's slot of the cache
NoCached == [stored |-> FALSE, at |-> 0, value |-> None]

EmptyCache == [a \in Adapters |-> NoCached]

\* the slot holds a return value younger than ttl
Fresh(c, a, now) == c[a].stored /\ now - c[a].at < ttl

\* the wrapper keeps whatever the body returned, None included
Stored(c, a, now, x) == [c EXCEPT ![a] = [stored |-> TRUE, at |-> now, value |-> x]]

\* a call of a cached adapter at time `now`: the value it returns, the cache
\* after it, and the adapters whose body ran
CachedCall(c, a, now) ==
    IF Fresh(c, a, now)
    THEN {[value |-> c[a].value, cache |-> c, ran |-> {}]}
    ELSE {[value |-> x, cache |-> Stored(c, a, now, x), ran |-> {a}] : x \in Returns(a)}

\* fetch_global_silver(): its body calls the cached fetch_spot_price
CallGlobal(c, now) ==
    IF Fresh(c, "fetch_global_silver", now)
    THEN {[value |-> c["fetch_global_silver"].value, cache |-> c, ran |-> {}]}
    ELSE {[value |-> GlobalSilverOf(r.value),
           cache |-> Stored(r.cache, "fetch_global_silver", now, GlobalSilverOf(r.value)),
           ran |-> r.ran \cup {"fetch_global_silver"}] :
            r \in CachedCall(c, "fetch_spot_price", now)}

\* executor.submit(fetch_spot_price) and executor.submit(fetch_global_silver):
\* the two threads one after the other, or both missing the cache at once, each
\* running the body of fetch_spot_price, either's value being the one kept
SpotAndGlobal(c, now) ==
    UNION {{[spot |-> r.value, global |-> g.value, cache |-> g.cache,
             ran |-> r.ran \cup g.ran] : g \in CallGlobal(r.cache, now)} :
           r \in CachedCall(c, "fetch_spot_price", now)}
    \cup
    UNION {UNION {{[spot |-> r.value, global |-> g.value,
                    cache |-> [g.cache EXCEPT !["fetch_spot_price"] = k],
                    ran |-> r.ran \cup g.ran] :
                    k \in {r.cache["fetch_spot_price"], g.cache["fetch_spot_price"]}} :
                  g \in CallGlobal(c, now)} :
           r \in CachedCall(c, "fetch_spot_price", now)}

\* st.session_state: data_fetched, and the keys holding fetched values
\* (global_price carries global_price_source, sge_price the usd and rmb keys)
SessionKeys ==
    {"slv_holdings", "spot_price", "global_price", "open_interest",
     "lbma_holdings", "sge_price"}

Absent == [set |-> FALSE, val |-> None]

Held(x) == [set |-> TRUE, val |-> x]

\* a browser session before its first script run
NewSession == [data_fetched |-> FALSE, keys |-> [k \in SessionKeys |-> Absent]]

\* if 'key' not in st.session_state: st.session_state['key'] = x
SetDefault(keys, k, x) == IF keys[k].set THEN keys ELSE [keys EXCEPT ![k] = Held(x)]

\* a faulty SetIfTruthy: the fetched value is dropped
SetIfTruthyNever(keys, k, x) == keys

\* if fetched: st.session_state['key'] = fetched
SetIfTruthy(keys, k, x) == IF Truthy(x) THEN [keys EXCEPT ![k] = Held(x)] ELSE keys

\* no script run yet: op, the kind of run; ran, the adapters whose body ran in
\* it; got, what each adapter call of its fetch cycle returned
NoRun == [op |-> "none", ran |-> {}, got |-> [a \in {} |-> None]]

(***************************************************************************)
(* get_withdrawal_trend, src/app.py 72-105.                                *)
(***************************************************************************)
\* what get_withdrawal_trend returns: (None, 0) or (change, 7)
NoTrend == [none |-> TRUE, change |-> 0, days |-> 0]

\* a faulty Trend: the change is taken from the latest value to the past one
TrendReversed(change) == [none |-> FALSE, change |-> 0 - change, days |-> 7]

Trend(change) == [none |-> FALSE, change |-> change, days |-> 7]

RECURSIVE InsertByDate(_, _)
\* row put into date-sorted rows, after the rows of its own Date
InsertByDate(sorted, row) ==
    IF sorted = <<>> THEN <<row>>
    ELSE IF row.Date < Head(sorted).Date THEN <<row>> \o sorted
    ELSE <<Head(sorted)>> \o InsertByDate(Tail(sorted), row)

RECURSIVE SortByDateFrom(_, _, _)
SortByDateFrom(rows, i, acc) ==
    IF i > Len(rows) THEN acc
    ELSE SortByDateFrom(rows, i + 1, InsertByDate(acc, rows[i]))

\* df.sort_values('Date')
SortByDate(rows) == SortByDateFrom(rows, 1, <<>>)

Abs(x) == IF x < 0 THEN -x ELSE x

RECURSIVE IdxMinFrom(_, _, _, _)
\* diff_days.idxmin(): the first row nearest to the target date
IdxMinFrom(rows, target, i, best) ==
    IF i > Len(rows) THEN best
    ELSE IF Abs(rows[i].Date - target) < Abs(rows[best].Date - target)
    THEN IdxMinFrom(rows, target, i + 1, i)
    ELSE IdxMinFrom(rows, target, i + 1, best)

\* a faulty GapTooLarge: the tolerance is the whole week
GapTooLargeWeek(gap) == gap > 7

\* if closest_row['diff_days'].days > 5
GapTooLarge(gap) == gap > 5

\* get_withdrawal_trend() on the history file
GetWithdrawalTrend(hist) ==
    IF ~hist.exists \/ hist.rows = <<>> THEN NoTrend
    ELSE LET df == SortByDate(hist.rows)
             current == df[Len(df)]
             target == current.Date - 7
             closest == df[IdxMinFrom(df, target, 1, 1)]
         IN  IF GapTooLarge(Abs(closest.Date - target)) THEN NoTrend
             ELSE Trend(current.Registered - closest.Registered)

(***************************************************************************)
(* The squeeze detection thresholds, src/app.py 27-29.  No line of the     *)
(* program reads them.                                                     *)
(***************************************************************************)
CRITICAL_THRESHOLD == 10000000

SQUEEZE_THRESHOLD == 50000000

(***************************************************************************)
(* The page body, src/app.py 621-771: the values it derives from the       *)
(* report's totals, the history file and the session.                      *)
(***************************************************************************)
\* the keywords of pick_value that occur in str(col).lower(), for the column
\* names of the model's reports
KeywordsIn(name) ==
    CASE name = "Registered" -> {"register", "reg"}
      [] name = "Eligible" -> {"eligible", "elig"}
      [] OTHER -> {}

\* pick_value(keywords): the first numeric cell under a column whose name
\* holds a keyword, else the first numeric cell of the row (exclude_cols is
\* never passed), else None
PickValue(totals, keywords) ==
    LET row == totals.rows[1]
        n == Len(totals.columns)
        byName == FirstPos([j \in 1..n |->
                      KeywordsIn(totals.columns[j]) \cap keywords # {}
                      /\ ~IsNa(ToNumeric(row[j]))])
        anyCol == FirstPos([j \in 1..n |-> ~IsNa(ToNumeric(row[j]))])
    IN  IF byName # 0 THEN ToNumeric(row[byName])
        ELSE IF anyCol # 0 THEN ToNumeric(row[anyCol])
        ELSE NaN

\* the value of a named column of the first totals row, None without the column
NamedValue(totals, name) ==
    IF ColumnPos(totals.columns, name) # 0
    THEN ToNumeric(totals.rows[1][ColumnPos(totals.columns, name)])
    ELSE NaN

\* reg_numeric, lines 631-657
RegNumeric(totals) ==
    IF IsNa(NamedValue(totals, "Registered"))
    THEN PickValue(totals, {"register", "reg"})
    ELSE NamedValue(totals, "Registered")

\* elig_numeric, lines 632-659
EligNumeric(totals) ==
    IF IsNa(NamedValue(totals, "Eligible"))
    THEN PickValue(totals, {"eligible", "elig"})
    ELSE NamedValue(totals, "Eligible")

\* a quotient the page computes, kept as the fraction num / den; "none": not
\* computed; "nan" and "inf": what numpy's division gives for a zero divisor
NoQuotient == [k |-> "none", num |-> 0, den |-> 1]

Divide(num, den) ==
    IF den # 0 THEN [k |-> "val", num |-> num, den |-> den]
    ELSE IF num = 0 THEN [k |-> "nan", num |-> 0, den |-> 0]
    ELSE [k |-> "inf", num |-> num, den |-> 0]

\* q > n for a computed quotient of non-negative numbers
Exceeds(q, n) ==
    q.k = "inf" \/ (q.k = "val" /\ (q.num \div q.den > n
                                    \/ (q.num \div q.den = n /\ q.num % q.den > 0)))

\* a faulty HasRatio: the ratio is computed whatever the two values are
HasRatioAlways(oi, reg) == TRUE

\* if oi_val and reg_numeric
HasRatio(oi, reg) == Truthy(oi) /\ reg.n # 0

\* ratio = (oi_val * 5000) / reg_numeric
OiRatio(oi, reg) ==
    IF HasRatio(oi, reg) THEN Divide(oi.v * 5000, reg.n) ELSE NoQuotient

\* delta="High Risk" if ratio > 100 else "Normal"
RatioLabels(ratio) ==
    IF ratio.k = "none" THEN {}
    ELSE IF Exceeds(ratio, 100) THEN {"High Risk"} ELSE {"Normal"}

\* the page's computations before any ran
NoView ==
    [op |-> "none", branch |-> "none", trend |-> NoTrend, reg |-> NaN, elig |-> NaN,
     pct |-> NoQuotient, oi |-> None, ratio |-> NoQuotient, labels |-> {}]

\* the body of one script run: no totals (line 1016), totals without both
\* numbers (line 986), or the metrics; pct is reg_percentage / 100
PageBody(excel, keys, hist) ==
    LET totals == LoadData(excel).totals
    IN  IF totals.isNone \/ FrameEmpty(totals)
        THEN [NoView EXCEPT !.op = "render", !.branch = "no_totals"]
        ELSE
        LET reg == RegNumeric(totals)
            elig == EligNumeric(totals)
            oi == keys["open_interest"].val
        IN  IF IsNa(reg) \/ IsNa(elig)
            THEN [NoView EXCEPT !.op = "render", !.branch = "parse_error",
                                !.reg = reg, !.elig = elig]
            ELSE [op |-> "render", branch |-> "metrics",
                  trend |-> GetWithdrawalTrend(hist),
                  reg |-> reg, elig |-> elig,
                  pct |-> Divide(reg.n, reg.n + elig.n),
                  oi |-> oi,
                  ratio |-> OiRatio(oi, reg),
                  labels |-> RatioLabels(OiRatio(oi, reg))]

WebIdle ==
    /\ clock = 0
    /\ cache = EmptyCache
    /\ session = NewSession
    /\ run = NoRun
    /\ view = NoView

(***************************************************************************)
(* Writers of the history file running at once (SpecConc): each reads the  *)
(* file, builds the frame to write, and writes it.                         *)
(***************************************************************************)
Writers == {"A", "B"}

\* the entries download_and_save upserts on a day, over the reports it
\* succeeds on
UpsertEntries(day) ==
    {Entry(day, r.reg, r.elig) :
        r \in {q \in {AfterSave(ExcelOf(p)) : p \in Payloads} : q.ok}}

\* a writer: what it runs (upsert: lines 428-436 of download_and_save;
\* backfill: backfill_historical_data) with its inputs, where it stands, the
\* file as it read it, and the file it is about to write
IdleWriter ==
    [kind |-> "none", pc |-> "idle", entry |-> <<>>, archive |-> <<>>, seed |-> 0,
     seen |-> NoHistory, out |-> NoHistory, writes |-> FALSE]

ConcIdle == conc = [start |-> NoHistory, w |-> [s \in Writers |-> IdleWriter]]

(***************************************************************************)
(* Spec: the session's calls.                                              *)
(***************************************************************************)
\* last: what the latest call was and how it ended
\*   attempts, final   passes of the retry loop made, what the last one ended with
\*   written           the entry download_and_save upserted, if it did
\*   path              what backfill_historical_data did: skip, archive, synthetic
\*   hadDay            the history held a row of today when the call began
\*   repeat            the call upserted the entry the call before it upserted
Idle ==
    [op |-> "none", ok |-> FALSE, msg |-> "", attempts |-> 0, final |-> "",
     written |-> <<>>, path |-> "", hadDay |-> FALSE, repeat |-> FALSE]

StoreIdle ==
    /\ today = FirstDay
    /\ histFile = NoHistory
    /\ localExcel = NoExcel
    /\ excelAt = 0
    /\ genuine = {}
    /\ last = Idle

GridIdle == grid = <<>> /\ extracted = NotCalled

Init == GridIdle /\ StoreIdle /\ ConcIdle /\ WebIdle

RowsOf(hist, date) == {i \in 1..Len(hist.rows) : hist.rows[i].Date = date}

\* the dates among g whose row is the same in both files
GenuineAfter(g, before, after) ==
    {d \in g : \E i \in RowsOf(before, d), j \in RowsOf(after, d) :
                  after.rows[j] = before.rows[i]}

\* a day passes
Tick ==
    /\ today < FirstDay + MaxTicks
    /\ today' = today + 1
    /\ last' = Idle
    /\ UNCHANGED <<gridVars, histFile, localExcel, excelAt, genuine, conc, webVars>>

\* success, msg = download_and_save()
\* genuine: the dates whose row in the file is the one download_and_save wrote
DownloadAndSave ==
    \E r \in CallResults[localExcel] :
        /\ localExcel' = r.excel
        /\ excelAt' = IF r.wrote THEN clock ELSE excelAt
        /\ histFile' = HistoryAfter(r, today, histFile)
        /\ genuine' = IF r.ok THEN genuine \cup {today} ELSE genuine
        /\ last' = [op |-> "download", ok |-> r.ok, msg |-> r.msg,
                    attempts |-> r.attempts, final |-> r.final,
                    written |-> IF r.ok THEN <<Entry(today, r.reg, r.elig)>> ELSE <<>>,
                    path |-> "",
                    hadDay |-> RowsOf(histFile, today) # {},
                    repeat |-> /\ r.ok
                               /\ last.op = "download"
                               /\ last.written = <<Entry(today, r.reg, r.elig)>>]
        /\ UNCHANGED <<gridVars, today, conc, webVars>>

\* backfill_historical_data()
Backfill ==
    \E archive \in ArchiveResults(today), seed \in 0..MaxHashSeed :
        LET b == Backfilled(histFile, today, archive, seed)
        IN  /\ histFile' = b.hist
            /\ genuine' = GenuineAfter(genuine, histFile, b.hist)
            /\ last' = [op |-> "backfill", ok |-> b.returned, msg |-> "",
                        attempts |-> 0, final |-> "", written |-> <<>>,
                        path |-> b.path, hadDay |-> RowsOf(histFile, today) # {},
                        repeat |-> FALSE]
            /\ UNCHANGED <<gridVars, today, localExcel, excelAt, conc, webVars>>

Next == Tick \/ DownloadAndSave \/ Backfill

Spec == Init /\ [][Next]_vars

\* every grid of 1..MaxGridRows rows of the pool, with every column pad
GridInit ==
    /\ \E n \in 1..MaxGridRows :
           \E rows \in [1..n -> RowPool], pad \in ColumnPads :
               grid = PadGrid(rows, pad)
    /\ extracted = NotCalled
    /\ StoreIdle
    /\ ConcIdle
    /\ WebIdle

\* totals, full_data = load_data() on the decoded grid
LoadDataCall ==
    /\ ~extracted.called
    /\ extracted' = [called |-> TRUE, totals |-> LoadGrid(grid).totals,
                     df |-> LoadGrid(grid).df]
    /\ UNCHANGED <<grid, storeVars, conc, webVars>>

NextGrid == LoadDataCall

SpecGrid == GridInit /\ [][NextGrid]_vars

(***************************************************************************)
(* SpecConc: two sessions write the history file at once.                  *)
(***************************************************************************)
\* the history a writer can find: none, or one entry of today or of the day
\* before
StartStores ==
    {NoHistory} \cup
    {HistoryOf(<<e>>) : e \in UpsertEntries(FirstDay) \cup UpsertEntries(FirstDay - 1)}

ConcInit ==
    /\ GridIdle
    /\ today = FirstDay
    /\ histFile \in StartStores
    /\ localExcel = NoExcel
    /\ excelAt = 0
    /\ genuine = {}
    /\ last = Idle
    /\ conc = [start |-> histFile, w |-> [s \in Writers |-> IdleWriter]]
    /\ WebIdle

\* a session comes to the upsert of download_and_save, or calls
\* backfill_historical_data
Begin(s) ==
    /\ conc.w[s].pc = "idle"
    /\ \/ \E e \in UpsertEntries(today) :
              conc' = [conc EXCEPT !.w[s] =
                          [IdleWriter EXCEPT !.kind = "upsert", !.pc = "begun",
                                             !.entry = <<e>>]]
       \/ \E archive \in ArchiveResults(today), seed \in 0..MaxHashSeed :
              conc' = [conc EXCEPT !.w[s] =
                          [IdleWriter EXCEPT !.kind = "backfill", !.pc = "begun",
                                             !.archive = archive, !.seed = seed]]
    /\ UNCHANGED <<gridVars, storeVars, webVars>>

\* os.path.exists(HISTORY_FILE) and pd.read_csv(HISTORY_FILE), lines 428-429
\* and 285-288
ReadFile(s) ==
    /\ conc.w[s].pc = "begun"
    /\ conc' = [conc EXCEPT !.w[s].pc = "read", !.w[s].seen = histFile]
    /\ UNCHANGED <<gridVars, storeVars, webVars>>

\* the frame to write, from the file as read: lines 431-433, and 289-386
Merge(s) ==
    /\ conc.w[s].pc = "read"
    /\ LET wr == conc.w[s]
           b == Backfilled(wr.seen, today, wr.archive, wr.seed)
       IN  conc' = [conc EXCEPT
                       !.w[s].pc = "merged",
                       !.w[s].out = IF wr.kind = "upsert"
                                    THEN Upsert(wr.seen, wr.entry[1])
                                    ELSE b.hist,
                       !.w[s].writes = (wr.kind = "upsert" \/ b.path # "skip")]
    /\ UNCHANGED <<gridVars, storeVars, webVars>>

\* to_csv(HISTORY_FILE), lines 434/436 and 316/387
WriteFile(s) ==
    /\ conc.w[s].pc = "merged"
    /\ histFile' = IF conc.w[s].writes THEN conc.w[s].out ELSE histFile
    /\ conc' = [conc EXCEPT !.w[s].pc = "done"]
    /\ UNCHANGED <<gridVars, today, localExcel, excelAt, genuine, last, webVars>>

NextConc == \E s \in Writers : Begin(s) \/ ReadFile(s) \/ Merge(s) \/ WriteFile(s)

SpecConc == ConcInit /\ [][NextConc]_vars

(***************************************************************************)
(* SpecCache: the script runs of one browser session over the process-wide *)
(* cache.                                                                  *)
(***************************************************************************)
\* the reports the startup download is answered with
StartupPayloads == {GoodReport(SampleRegistered, SampleEligible), Garbage}

\* the results the startup's download_and_save can end with, by the local file
\* it finds
StartupResults ==
    [e \in ExcelStates \cup {ExcelOf(p) : p \in PageReports} |->
        Attempts(0, e, FALSE, StartupPayloads)]

\* seconds: file_age > timedelta(hours=12)
MaxFileAge == 43200

\* a faulty ShouldFetchCme: a file of 12 hours is fetched again
ShouldFetchCmeAtTwelve(excel, at, now) == ~excel.exists \/ now - at >= MaxFileAge

\* should_fetch_cme, lines 1032-1035
ShouldFetchCme(excel, at, now) == ~excel.exists \/ now - at > MaxFileAge

\* the first script run of a session: the session defaults (533-541), the
\* sidebar defaults (601-605), the page body (621-1020), the startup fetch
\* with its session update (1023-1077) and the backfill (1080)
PageLoad ==
    /\ ~session.data_fetched
    /\ \E r \in IF ShouldFetchCme(localExcel, excelAt, clock)
                THEN StartupResults[localExcel]
                ELSE {Result(FALSE, "", localExcel, FALSE, 0, "not_fetched", 0, 0)},
          archive \in ArchiveResults(today), seed \in 0..MaxHashSeed :
        \E oi \in CachedCall(cache, "fetch_open_interest", clock) :
        \E lbma \in CachedCall(oi.cache, "fetch_lbma_holdings", clock) :
        \E slv \in CachedCall(lbma.cache, "fetch_slv_holdings", clock) :
        \E sg \in SpotAndGlobal(slv.cache, clock) :
        \E sge \in CachedCall(sg.cache, "fetch_sge_price", clock) :
            LET k0 == SetDefault(SetDefault(session.keys, "slv_holdings", Value(0, 0, "")),
                                 "spot_price", None)
                k1 == SetDefault(SetDefault(k0, "open_interest", oi.value),
                                 "lbma_holdings", lbma.value)
                k2 == SetIfTruthy(SetIfTruthy(k1, "slv_holdings", slv.value),
                                  "spot_price", sg.spot)
                k3 == SetIfTruthy(SetIfTruthy(k2, "global_price", sg.global),
                                  "open_interest", oi.value)
                k4 == SetIfTruthy(k3, "sge_price", sge.value)
                k5 == [k4 EXCEPT !["lbma_holdings"] = Held(lbma.value)]
                h1 == HistoryAfter(r, today, histFile)
                g1 == IF r.ok THEN genuine \cup {today} ELSE genuine
                b == Backfilled(h1, today, archive, seed)
            IN  /\ localExcel' = r.excel
                /\ excelAt' = IF r.wrote THEN clock ELSE excelAt
                /\ histFile' = b.hist
                /\ genuine' = GenuineAfter(g1, h1, b.hist)
                /\ last' = [Idle EXCEPT !.op = "startup", !.ok = r.ok,
                                         !.final = r.final, !.path = b.path]
                /\ cache' = sge.cache
                /\ session' = [data_fetched |-> TRUE, keys |-> k5]
                /\ run' = [op |-> "page_load",
                           ran |-> oi.ran \cup lbma.ran \cup slv.ran \cup sg.ran \cup sge.ran,
                           got |-> [a \in Adapters |->
                                     CASE a = "fetch_open_interest" -> oi.value
                                       [] a = "fetch_lbma_holdings" -> lbma.value
                                       [] a = "fetch_slv_holdings" -> slv.value
                                       [] a = "fetch_spot_price" -> sg.spot
                                       [] a = "fetch_global_silver" -> sg.global
                                       [] OTHER -> sge.value]]
                /\ view' = PageBody(localExcel, k1, histFile)
    /\ UNCHANGED <<gridVars, today, conc, clock>>

\* the "Refresh All" button, lines 566-591
RefreshAll ==
    /\ session.data_fetched
    /\ \E slv \in CachedCall(cache, "fetch_slv_holdings", clock) :
       \E sg \in SpotAndGlobal(slv.cache, clock) :
       \E oi \in CachedCall(sg.cache, "fetch_open_interest", clock) :
       \E lbma \in CachedCall(oi.cache, "fetch_lbma_holdings", clock) :
           LET k1 == SetIfTruthy(SetIfTruthy(session.keys, "slv_holdings", slv.value),
                                 "spot_price", sg.spot)
               k2 == SetIfTruthy(k1, "global_price", sg.global)
               k3 == [k2 EXCEPT !["open_interest"] = Held(oi.value),
                                !["lbma_holdings"] = Held(lbma.value)]
           IN  /\ cache' = lbma.cache
               /\ session' = [session EXCEPT !.keys = k3]
               /\ run' = [op |-> "refresh_all",
                          ran |-> slv.ran \cup sg.ran \cup oi.ran \cup lbma.ran,
                          got |-> [a \in Adapters \ {"fetch_sge_price"} |->
                                    CASE a = "fetch_open_interest" -> oi.value
                                      [] a = "fetch_lbma_holdings" -> lbma.value
                                      [] a = "fetch_slv_holdings" -> slv.value
                                      [] a = "fetch_spot_price" -> sg.spot
                                      [] OTHER -> sg.global]]
    /\ UNCHANGED <<gridVars, storeVars, conc, clock, view>>

\* time passes
AdvanceClock ==
    /\ clock < MaxClockSteps * ClockStep
    /\ clock' = clock + ClockStep
    /\ run' = NoRun
    /\ UNCHANGED <<gridVars, storeVars, conc, cache, session, view>>

NextCache == PageLoad \/ RefreshAll \/ AdvanceClock

SpecCache == Init /\ [][NextCache]_vars

(***************************************************************************)
(* SpecTrend: get_withdrawal_trend applied to bounded history files.       *)
(***************************************************************************)
\* the registered value the history holds for a date
RegisteredOn(date) == 100000000 + 1000000 * ((date * 7) % 5)

\* the rows of the dates ds, in date order
RowsOfDates(ds) ==
    LET at == TrueIndices([k \in 1..(TrendSpan + 1) |-> (FirstDay - TrendSpan - 1 + k) \in ds])
    IN  [p \in 1..Len(at) |->
            Entry(FirstDay - TrendSpan - 1 + at[p],
                  RegisteredOn(FirstDay - TrendSpan - 1 + at[p]), DefaultEligible)]

\* no history file, or one with an entry for any dates of the last TrendSpan
\* days and today
TrendInit ==
    /\ GridIdle
    /\ today = FirstDay
    /\ \E ds \in SUBSET ((FirstDay - TrendSpan)..FirstDay) :
           histFile = IF ds = {} THEN NoHistory ELSE HistoryOf(RowsOfDates(ds))
    /\ localExcel = NoExcel
    /\ excelAt = 0
    /\ genuine = {}
    /\ last = Idle
    /\ ConcIdle
    /\ WebIdle

\* trend_val, days = get_withdrawal_trend()
TrendCall ==
    /\ view.op = "none"
    /\ view' = [view EXCEPT !.op = "trend", !.trend = GetWithdrawalTrend(histFile)]
    /\ UNCHANGED <<gridVars, storeVars, conc, clock, cache, session, run>>

NextTrend == TrendCall

SpecTrend == TrendInit /\ [][NextTrend]_vars

(***************************************************************************)
(* SpecPage: script runs of a session opened over no local report file, or *)
(* over one saved at time 0, the session opening at once, 12 hours later   *)
(* or later than that.                                                     *)
(***************************************************************************)
PageInit ==
    /\ GridIdle
    /\ today = FirstDay
    /\ \E ds \in {{}, {FirstDay - 7, FirstDay}} :
           /\ histFile = IF ds = {} THEN NoHistory ELSE HistoryOf(RowsOfDates(ds))
           /\ genuine = ds
    /\ localExcel \in {NoExcel} \cup {ExcelOf(p) : p \in PageReports}
    /\ excelAt = 0
    /\ last = Idle
    /\ ConcIdle
    /\ clock \in {0, MaxFileAge, MaxFileAge + ClockStep}
    /\ cache = EmptyCache
    /\ session = NewSession
    /\ run = NoRun
    /\ view = NoView

\* a script run of a session whose startup fetch is done (st.rerun(), or any
\* widget): the sidebar defaults are set already, the page body is computed
ScriptRun ==
    /\ session.data_fetched
    /\ run' = [NoRun EXCEPT !.op = "script_run"]
    /\ view' = PageBody(localExcel, session.keys, histFile)
    /\ UNCHANGED <<gridVars, storeVars, conc, clock, cache, session>>

NextPage == PageLoad \/ ScriptRun

SpecPage == PageInit /\ [][NextPage]_vars

(***************************************************************************)
(* SpecAdapters: one call of a source adapter on an answer of its          *)
(* upstream, or of download_and_save over a local file, the caches empty.  *)
(***************************************************************************)
AdapterInit ==
    /\ GridIdle
    /\ today = FirstDay
    /\ histFile = NoHistory
    /\ excelAt = 0
    /\ genuine = {}
    /\ last = Idle
    /\ ConcIdle
    /\ clock = 0
    /\ cache = EmptyCache
    /\ session = NewSession
    /\ view = NoView
    /\ \/ /\ localExcel = NoExcel
          /\ \E a \in Adapters : \E up \in Upstreams(a) :
                run = [op |-> a, done |-> FALSE, up |-> up, out |-> Outcome("", None)]
       \/ /\ localExcel \in ExcelStates
          /\ run = [op |-> "download_and_save", done |-> FALSE,
                    up |-> [fail |-> "none", first |-> NaN, second |-> NaN],
                    out |-> Outcome("", None)]

\* the call of a cached adapter whose slot is empty: its body runs and the
\* wrapper stores what it returned (fetch_global_silver calls fetch_spot_price,
\* whose return value is stored as well)
CallAdapter ==
    /\ run.op \in Adapters
    /\ ~run.done
    /\ LET out == Body(run.op, run.up)
           inner == IF run.op = "fetch_global_silver"
                    THEN Stored(cache, "fetch_spot_price", clock,
                                Body("fetch_spot_price", run.up).value)
                    ELSE cache
       IN  /\ run' = [run EXCEPT !.done = TRUE, !.out = out]
           /\ cache' = IF out.kind = "" THEN Stored(inner, run.op, clock, out.value)
                        ELSE cache
    /\ UNCHANGED <<gridVars, storeVars, conc, clock, session, view>>

\* the one call of download_and_save
DownloadOnce ==
    /\ run.op = "download_and_save"
    /\ last.op = "none"
    /\ DownloadAndSave

NextAdapters == CallAdapter \/ DownloadOnce

SpecAdapters == AdapterInit /\ [][NextAdapters]_vars

(***************************************************************************)
(* Claims about the source adapters (SpecAdapters).                        *)
(***************************************************************************)
\* the latest step was the call of adapter a
Called(a) == run.op = a /\ run.done

\* C16: fetch_open_interest returns None exactly when the openInterest field
\* is missing or the query fails, and returns the field's value, 0 included,
\* whenever the field is present.
C16_ZeroIsNotAbsent ==
    Called("fetch_open_interest") =>
        /\ run.out.value = None <=> (run.up.fail # "none" \/ IsNa(run.up.first))
        /\ (run.up.fail = "none" /\ ~IsNa(run.up.first)) =>
               run.out.value = Value(run.up.first.n, 0, "")

\* the upstream answer of the latest adapter call is a failure: the request
\* failed or got an error status, the body could not be decoded, a text did not
\* parse as a number, or every number found lies outside the accepted range
UpstreamFailed ==
    \/ run.up.fail # "none"
    \/ run.up.first.k = "str"
    \/ run.op = "fetch_slv_holdings"
          /\ \A c \in {run.up.first, run.up.second} :
                 c.k = "num" => ~(100000000 < c.n /\ c.n < 1000000000)
    \/ run.op = "fetch_global_silver" /\ run.up.first.k = "num"
          /\ ~(5 < run.up.first.n /\ run.up.first.n < 200)

\* C17: no call of fetch_open_interest, fetch_slv_holdings, fetch_spot_price,
\* fetch_global_silver, fetch_sge_price or download_and_save ends in an
\* exception, and a call whose upstream failed returns the unavailable outcome:
\* None (for a pair, None and None), or (False, message).
C17_NoFailureEscapes ==
    /\ (run.op \in Adapters /\ run.done) =>
           /\ run.out.kind = ""
           /\ UpstreamFailed => run.out.value = None
    /\ last.op = "download" =>
           /\ last.final # "escaped"
           /\ last.final \in {"net", "write", "history", "no_totals", "no_registered"} =>
                  (~last.ok /\ last.msg # "")

\* fetch_global_silver was called and the price request inside it failed to
\* decode
C17_Witness ==
    /\ Called("fetch_global_silver")
    /\ run.up.fail = "decode"
    /\ run.out = Outcome("", None)

\* C19: every value fetch_slv_holdings returns, be it the number of the
\* structural lookup or the one of the regular-expression fallback, lies
\* between 100,000,000 and 1,000,000,000 ounces.
C19_HoldingsInRange ==
    (Called("fetch_slv_holdings") /\ run.out.value # None) =>
        /\ 100000000 < run.out.value.v
        /\ run.out.value.v < 1000000000
        /\ run.out.value.v \in {c.n : c \in {d \in {run.up.first, run.up.second} :
                                                 d.k = "num"}}

\* the structural lookup found a number out of range and the fallback's
\* number, in range, was returned
C19_Witness ==
    /\ Called("fetch_slv_holdings")
    /\ run.up.first = Num(1000000000)
    /\ run.up.second = Num(480000000)
    /\ run.out.value = Value(480000000, 0, "")

\* C23: when the page was fetched and the structural lookup of
\* fetch_slv_holdings gave no accepted value (no element, a text that is no
\* number, a number out of range), the number of the regular-expression
\* fallback is returned if it is in range; None is returned only if neither
\* method gave an accepted value.
C23_FallbackAfterPrimaryFails ==
    (Called("fetch_slv_holdings") /\ run.up.fail = "none") =>
        LET accepted(c) == c.k = "num" /\ 100000000 < c.n /\ c.n < 1000000000
        IN  /\ (~accepted(run.up.first) /\ accepted(run.up.second)) =>
                   run.out.value = Value(run.up.second.n, 0, "")
            /\ run.out.value = None =>
                   (~accepted(run.up.first) /\ ~accepted(run.up.second))

(***************************************************************************)
(* Claims about the fetch cycles (SpecCache).                              *)
(***************************************************************************)
\* the session key an adapter's result is stored under
KeyOf(a) ==
    CASE a = "fetch_open_interest" -> "open_interest"
      [] a = "fetch_lbma_holdings" -> "lbma_holdings"
      [] a = "fetch_slv_holdings" -> "slv_holdings"
      [] a = "fetch_spot_price" -> "spot_price"
      [] a = "fetch_global_silver" -> "global_price"
      [] OTHER -> "sge_price"

\* C18: every fetch cycle (the startup fetch, Refresh All) completes whatever
\* adapters fail in it; an adapter that failed gave None and left its session
\* key without a fetched value (the key keeps what it held, or holds the
\* script's default, None or 0); an adapter that succeeded has its result
\* stored under its key unchanged, whatever the other adapters did.
C18_FailuresStayApart ==
    [][run'.op \in {"page_load", "refresh_all"} =>
          /\ session'.data_fetched
          /\ \A a \in DOMAIN run'.got :
                 IF Truthy(run'.got[a])
                 THEN session'.keys[KeyOf(a)] = Held(run'.got[a])
                 ELSE /\ run'.got[a] = None
                      /\ session'.keys[KeyOf(a)].val \in
                             {session.keys[KeyOf(a)].val, None, Value(0, 0, "")}]_vars

\* a startup fetch in which fetch_slv_holdings and fetch_spot_price failed
\* while fetch_open_interest and fetch_sge_price succeeded
C18_Witness ==
    /\ run.op = "page_load"
    /\ run.got["fetch_slv_holdings"] = None
    /\ run.got["fetch_spot_price"] = None
    /\ session.keys["slv_holdings"] = Held(Value(0, 0, ""))
    /\ session.keys["open_interest"] = Held(Value(200000, 0, ""))
    /\ session.keys["sge_price"] = Held(Value(30, 7000, ""))

\* C21: a session key of an external metric (SLV holdings, spot price, global
\* price, open interest, SGE price, vault holdings) holds a number only if it
\* is what the metric's adapter returns for an answer of its source that
\* carries a number: no metric value exists without a successful fetch.
C21_NoMetricWithoutFetch ==
    \A a \in Adapters :
        (session.keys[KeyOf(a)].set /\ ~session.keys[KeyOf(a)].val.none) =>
            \E up \in Upstreams(a) :
                /\ up.fail = "none"
                /\ up.first.k = "num"
                /\ Body(a, up).value = session.keys[KeyOf(a)].val

\* C29: in every fetch cycle (the startup fetch, Refresh All), a session key
\* of slv_holdings, spot_price, global_price, open_interest or sge_price that
\* holds a fetched value and whose adapter returned None in the cycle holds
\* that value after the cycle.
C29_FailureKeepsLastValue ==
    [][run'.op \in {"page_load", "refresh_all"} =>
           \A a \in DOMAIN run'.got \ {"fetch_lbma_holdings"} :
               (Truthy(session.keys[KeyOf(a)].val) /\ ~Truthy(run'.got[a])) =>
                   session'.keys[KeyOf(a)] = session.keys[KeyOf(a)]]_vars

(***************************************************************************)
(* Claims about the page's derived indicators (SpecPage).                  *)
(***************************************************************************)
\* the tier the two thresholds assign to a registered value
SqueezeTier(r) ==
    IF r < CRITICAL_THRESHOLD THEN "CRITICAL"
    ELSE IF r < SQUEEZE_THRESHOLD THEN "ALERT"
    ELSE "SAFE"

\* C13: whenever the page derives its indicators from a registered value,
\* exactly one squeeze tier is among them, the one the fixed thresholds give:
\* CRITICAL below 10,000,000, ALERT from 10,000,000 to below 50,000,000, SAFE
\* from 50,000,000 on.
C13_TierOfRegistered ==
    (view.op = "render" /\ view.branch = "metrics") =>
        view.labels \cap {"CRITICAL", "ALERT", "SAFE"} = {SqueezeTier(view.reg.n)}

ReportTotal(name) ==
    LET totals == LoadData(localExcel).totals
    IN  IF totals.isNone THEN NaN ELSE NamedValue(totals, name)

\* C15: the registered ratio is registered / (registered + eligible) for every
\* pair of present, non-negative totals of the report, so it lies between 0
\* and 1; it is not computed if either total is absent.
C15_RatioOfPresentTotals ==
    run.op = "script_run" =>
        LET reg == ReportTotal("Registered")
            elig == ReportTotal("Eligible")
        IN  /\ (IsNa(reg) \/ IsNa(elig)) => view.pct.k = "none"
            /\ (~IsNa(reg) /\ ~IsNa(elig) /\ reg.n >= 0 /\ elig.n >= 0) =>
                   /\ view.pct = [k |-> "val", num |-> reg.n, den |-> reg.n + elig.n]
                   /\ 0 <= view.pct.num /\ view.pct.num <= view.pct.den

(***************************************************************************)
(* Claims about get_withdrawal_trend (SpecTrend).                          *)
(***************************************************************************)
\* the dates of the history file
HistDates == {histFile.rows[i].Date : i \in 1..Len(histFile.rows)}

LatestDate == CHOOSE d \in HistDates : \A e \in HistDates : e <= d

\* the days between the target date, a week before the latest entry, and the
\* entry nearest to it
NearestGap ==
    LET gaps == {Abs(d - (LatestDate - 7)) : d \in HistDates}
    IN  CHOOSE g \in gaps : \A h \in gaps : g <= h

\* C12: get_withdrawal_trend returns (None, 0) whenever the history entry
\* nearest to (latest date - 7 days) is more than 5 days away from that date,
\* be the latest entry the only one or be there older entries further back.
C12_TrendUndefinedOnGap ==
    (view.op = "trend" /\ histFile.exists /\ NearestGap > 5) =>
        view.trend = NoTrend

\* C22: a defined trend is (latest Registered - e's Registered, 7), latest
\* being the entry of the greatest date and e an entry nearest to the target
\* date, 7 days before latest; e is at most 5 days from the target, so it lies
\* from 12 to 2 days before latest and is not the latest entry.
C22_TrendIsWeekChange ==
    (view.op = "trend" /\ ~view.trend.none) =>
        /\ histFile.exists
        /\ view.trend.days = 7
        /\ \E i, j \in 1..Len(histFile.rows) :
              LET latest == histFile.rows[i]
                  e == histFile.rows[j]
              IN  /\ latest.Date = LatestDate
                  /\ Abs(e.Date - (LatestDate - 7)) = NearestGap
                  /\ NearestGap <= 5
                  /\ e.Date \in (LatestDate - 12)..(LatestDate - 2)
                  /\ i # j
                  /\ view.trend.change = latest.Registered - e.Registered

\* a trend was computed from an entry 5 days off the target, other entries
\* lying further from it
C22_Witness ==
    /\ view.op = "trend"
    /\ ~view.trend.none
    /\ view.trend.change # 0
    /\ Len(histFile.rows) > 2
    /\ NearestGap = 5

\* the trend was asked of a history with entries older than the latest, none
\* of them within 5 days of the target
C12_Witness ==
    /\ view.op = "trend"
    /\ histFile.exists
    /\ Len(histFile.rows) > 2
    /\ NearestGap > 5
    /\ view.trend = NoTrend

(***************************************************************************)
(* Claims about the concurrent writers (SpecConc) and the cache            *)
(* (SpecCache).                                                            *)
(***************************************************************************)
\* the history file a writer leaves when it runs alone on hist
RunAlone(hist, wr) ==
    IF wr.kind = "upsert" THEN Upsert(hist, wr.entry[1])
    ELSE Backfilled(hist, today, wr.archive, wr.seed).hist

RECURSIVE SequentialOutcomes(_, _)
\* the history files the writers ws leave from hist when they run one after
\* the other, over every order
SequentialOutcomes(hist, ws) ==
    IF ws = {} THEN {hist}
    ELSE UNION {SequentialOutcomes(RunAlone(hist, conc.w[s]), ws \ {s}) : s \in ws}

\* C8: when two writers of the history file (upserts of download_and_save,
\* backfill_historical_data runs) have interleaved their read, merge and write
\* steps in any way and are done, the file is what some sequential order of the
\* two leaves.
C8_WritersConverge ==
    (\A s \in Writers : conc.w[s].pc = "done") =>
        histFile \in SequentialOutcomes(conc.start, Writers)

\* the adapters the "Refresh All" button calls that can fail
RefreshedAdapters ==
    {"fetch_slv_holdings", "fetch_spot_price", "fetch_global_silver",
     "fetch_open_interest"}

\* C4: when the cache holds the unavailable outcome (None) of an adapter, the
\* next "Refresh All" runs the adapter's upstream fetch again, also within the
\* hour, instead of returning the stored failure.
C4_FailureNotCached ==
    [][run'.op = "refresh_all" =>
           \A a \in RefreshedAdapters :
               (cache[a].stored /\ cache[a].value.none) => a \in run'.ran]_vars

(***************************************************************************)
(* Claims about the history store and download_and_save (Spec).            *)
(***************************************************************************)
\* the positions of the history file's rows
HistRows == 1..Len(histFile.rows)

\* C1: through every sequence of download_and_save and
\* backfill_historical_data calls from an empty history, the history file
\* holds at most one row per date, and after a successful download_and_save
\* the row of today is the entry just upserted (it replaced the older one).
C1_OneEntryPerDate ==
    /\ \A i, j \in HistRows :
           histFile.rows[i].Date = histFile.rows[j].Date => i = j
    /\ (last.op = "download" /\ last.ok) =>
           \E i \in HistRows : histFile.rows[i] = last.written[1]

\* an upsert on a day the history already held a row of, among other days' rows
C1_Witness ==
    /\ last.op = "download"
    /\ last.ok
    /\ last.hadDay
    /\ ~last.repeat
    /\ Len(histFile.rows) > 1

\* C2: when backfill_historical_data generates the synthetic series, every
\* date whose row was written by download_and_save keeps that row's Registered
\* and Eligible values.
C2_SyntheticKeepsGenuine ==
    [][(last'.op = "backfill" /\ last'.path = "synthetic") =>
           \A d \in genuine :
               \E i \in RowsOf(histFile, d), j \in RowsOf(histFile', d) :
                   histFile'.rows[j] = histFile.rows[i]]_vars

\* C3: a download_and_save call that did not both download and decode the
\* report into totals leaves the local report file as it was.
C3_FileKeptUnlessDecoded ==
    [][(last'.op = "download" /\ last'.final \notin {"updated", "no_registered"}) =>
           localExcel' = localExcel]_vars

\* C5 as stated: download_and_save reports a failure only after the third
\* failed attempt, whatever kind of failure it was.
C5_FailureOnlyAfterThird ==
    (last.op = "download" /\ ~last.ok) => last.attempts = MaxAttempts

\* the failures a pass of the try block raises
RaisedKinds == {"net", "write", "history"}

\* C5: download_and_save re-attempts after every failure that raises an
\* exception (network or HTTP status, file write, history I/O) until an attempt
\* returns or 3 attempts are made, and reports "Download failed after 3
\* attempts" only after the third raised failure; a report that cannot be
\* decoded or holds no aggregate row ends the call with its own message, not
\* with that one.
C5_RetriesRaisedFailures ==
    last.op = "download" =>
        /\ last.final \in RaisedKinds => (last.attempts = MaxAttempts /\ ~last.ok)
        /\ (last.msg = MsgFailed) <=> (last.final \in RaisedKinds)
        /\ last.final = "no_totals" => (last.msg = MsgNoTotals /\ ~last.ok)
        /\ last.final = "no_registered" => (last.msg = MsgNoRegistered /\ ~last.ok)

\* three network failures in a row ended the call
C5_Witness ==
    /\ last.op = "download"
    /\ last.final = "net"
    /\ last.attempts = MaxAttempts
    /\ last.msg = MsgFailed

\* C6: every download_and_save call ends after 1 to 3 attempts with a
\* (success, message) pair: no failure leaves it as an exception and the loop
\* never runs out without a result.
C6_AlwaysReturnsPair ==
    last.op = "download" =>
        /\ last.attempts \in 1..MaxAttempts
        /\ last.final \in RaisedKinds \cup {"updated", "no_totals", "no_registered"}
        /\ last.msg \in {MsgUpdated, MsgNoRegistered, MsgNoTotals, MsgFailed}
        /\ last.ok <=> (last.msg = MsgUpdated)

\* the history update failed in the third attempt as well
C6_Witness ==
    /\ last.op = "download"
    /\ last.final = "history"
    /\ last.attempts = MaxAttempts
    /\ ~last.ok

\* C7: a download_and_save that upserts the entry the call before it
\* upserted leaves the history file as that call left it, with exactly one row
\* of the date, equal to the entry.
C7_UpsertIdempotent ==
    [][(last.op = "download" /\ last.ok /\ last'.op = "download" /\ last'.ok
        /\ last'.written = last.written) =>
           /\ histFile' = histFile
           /\ \E i \in RowsOf(histFile', today) :
                  /\ RowsOf(histFile', today) = {i}
                  /\ histFile'.rows[i] = last'.written[1]]_vars

\* the same entry was upserted twice in a row into a history of several days
C7_Witness ==
    /\ last.op = "download"
    /\ last.repeat
    /\ Len(histFile.rows) > 1

\* C11: download_and_save writes a history entry only if the extraction
\* located both the registered and the eligible value in the report it saved;
\* it writes none with a missing value filled by a default or a zero.
C11_NoEntryWithoutBoth ==
    (last.op = "download" /\ last.ok) =>
        /\ ~IsNa(RegVal(LoadData(localExcel).totals))
        /\ ~IsNa(EligVal(LoadData(localExcel).totals))

\* C25: when the report downloaded by a call lacks the TOTAL REGISTERED or the
\* TOTAL ELIGIBLE row and load_data falls back to a row whose first column
\* contains TOTAL, with numbers in its second and third column, the call
\* succeeds and records exactly (today, second column, third column).
C25_FallbackRowRecorded ==
    (last.op = "download" /\ last.final \in {"updated", "no_registered", "no_totals"}) =>
        LET totals == LoadData(localExcel).totals
        IN  (/\ ~totals.isNone
             /\ Len(totals.columns) >= 3
             /\ ContainsCI(StrOf(totals.rows[1][1]), "TOTAL")
             /\ totals.rows[1][2].k = "num"
             /\ totals.rows[1][3].k = "num") =>
                /\ last.ok
                /\ last.written = <<Entry(today, totals.rows[1][2].n, totals.rows[1][3].n)>>

\* C26: a successful download_and_save changes only the row of today: every
\* row of another date is in the history file afterwards, unchanged, no row of
\* another date is new, and the file has one row more if it held no row of
\* today and as many as before if it held one.
C26_UpsertChangesOnlyToday ==
    [][(last'.op = "download" /\ last'.ok) =>
           /\ \A i \in HistRows :
                  histFile.rows[i].Date # today =>
                      \E j \in 1..Len(histFile'.rows) : histFile'.rows[j] = histFile.rows[i]
           /\ \A j \in 1..Len(histFile'.rows) :
                  histFile'.rows[j].Date # today =>
                      \E i \in HistRows : histFile.rows[i] = histFile'.rows[j]
           /\ Len(histFile'.rows) =
                  Len(histFile.rows) + (IF RowsOf(histFile, today) = {} THEN 1 ELSE 0)]_vars

\* an upsert on a day the history held no row of, next to other days' rows
C26_Witness ==
    /\ last.op = "download"
    /\ last.ok
    /\ ~last.hadDay
    /\ Len(histFile.rows) > 1

\* C27: after a backfill_historical_data that returned True, by the archive as
\* by the synthetic series, the history file reaches back days_span - 5 days or
\* more, and a backfill_historical_data called right after it returns False
\* and leaves the history file as it is.
C27_BackfillCoversSpan ==
    [][/\ (last'.op = "backfill" /\ last'.ok) =>
              /\ Len(histFile'.rows) > 0
              /\ today - OldestDate(histFile'.rows) >= days_span - 5
       /\ (last.op = "backfill" /\ last.ok /\ last'.op = "backfill") =>
              /\ ~last'.ok
              /\ histFile' = histFile]_vars

C20_AnchoredToLatestGenuine ==
    [][(last'.op = "backfill" /\ last'.path = "synthetic") =>
           /\ genuine # {}
           /\ \E d \in genuine :
                  /\ \A e \in genuine : e <= d
                  /\ \E i \in RowsOf(histFile, d), j \in RowsOf(histFile', today) :
                         histFile'.rows[j].Registered = histFile.rows[i].Registered]_vars

\* C30: the startup fetch runs only in a session whose data_fetched is
\* false, and it calls download_and_save exactly if there is no local report
\* file or the file is older than 12 hours; a script run of a session whose
\* data_fetched is true downloads nothing.
C30_DownloadIffStale ==
    [][/\ run'.op = "page_load" =>
              /\ ~session.data_fetched
              /\ (last'.final # "not_fetched") <=>
                     (~localExcel.exists \/ clock - excelAt > 12 * 3600)
       /\ session.data_fetched => (localExcel' = localExcel /\ last' = last)]_vars

\* a session opened over an undecodable local file exactly 12 hours old did
\* not download
C30_Witness ==
    /\ last.op = "startup"
    /\ last.final = "not_fetched"
    /\ localExcel = ExcelOf(Garbage)
    /\ clock - excelAt = 12 * 3600

(***************************************************************************)
(* Claims about load_data (SpecGrid).  The predicates below read the raw   *)
(* grid itself, not the frames load_data builds from it.                   *)
(***************************************************************************)
\* the first populated column of the grid (0: the grid has no populated cell)
FirstColumn(g) ==
    FirstPos([j \in 1..Len(g[1]) |-> \E i \in 1..Len(g) : ~IsNa(g[i][j])])

\* the text of row i in the grid's first populated column
LabelOf(g, i) == StrOf(g[i][FirstColumn(g)])

\* the first row holding both marker tokens (0: none)
MarkerRow(g) == FirstPos([i \in 1..Len(g) |-> IsHeaderRow(g[i])])

\* the first row below row h whose first column contains the token (0: none)
FirstRowBelow(g, h, token) ==
    FirstPos([i \in 1..Len(g) |->
                 i > h /\ FirstColumn(g) # 0 /\ ContainsCI(LabelOf(g, i), token)])

\* the rightmost populated cell of a row
Rightmost(row) ==
    row[CHOOSE j \in 1..Len(row) :
            ~IsNa(row[j]) /\ \A q \in (j + 1)..Len(row) : IsNa(row[q])]

HasAggregateRows(g) ==
    /\ MarkerRow(g) # 0
    /\ FirstRowBelow(g, MarkerRow(g), "TOTAL REGISTERED") # 0
    /\ FirstRowBelow(g, MarkerRow(g), "TOTAL ELIGIBLE") # 0

\* C9: for every grid with a header row holding both marker tokens and, below
\* it, a TOTAL REGISTERED and a TOTAL ELIGIBLE row, load_data returns the record
\* of the rightmost values of these two rows, whatever fully empty rows or
\* columns lie before, between or after the populated ones.
C9_RightmostTotals ==
    (extracted.called /\ HasAggregateRows(grid)) =>
        extracted.totals =
            Frame(<<"Registered", "Eligible">>,
                  <<<<Rightmost(grid[FirstRowBelow(grid, MarkerRow(grid), "TOTAL REGISTERED")]),
                      Rightmost(grid[FirstRowBelow(grid, MarkerRow(grid), "TOTAL ELIGIBLE")])>>>>)

\* no row is taken as header by the two-token matcher or by the DEPOSITORY matcher
\* C24: the column names load_data gives the frame are pairwise distinct for
\* every header row, and the k-th of the cells repeating a name, k from 2 on,
\* is named with the suffix _k.
C24_DedupedNamesDistinct ==
    (extracted.called /\ ~extracted.df.isNone) =>
        LET raw == Dropna(grid)
            header == Ffill(raw.rows[CHOOSE p \in 1..Len(raw.index) :
                                        raw.index[p] = HeaderIdx(raw)])
            columns == extracted.df.columns
        IN  /\ \A i, j \in 1..Len(columns) : i # j => columns[i] # columns[j]
            /\ \A j \in 1..Len(columns) :
                   LET earlier == Cardinality({i \in 1..(j - 1) :
                                      StrOf(header[i]) = StrOf(header[j])})
                   IN  columns[j] = IF earlier = 0 THEN StrOf(header[j])
                                    ELSE StrOf(header[j]) \o "_" \o ToString(earlier + 1)

NoMarkerRow(g) ==
    /\ MarkerRow(g) = 0
    /\ \A i \in 1..Len(g) :
           FirstColumn(g) # 0 => ~IsDepositoryCell(g[i][FirstColumn(g)])

NoTotalRow(g) ==
    \A i \in 1..Len(g) : FirstColumn(g) # 0 => ~ContainsCI(LabelOf(g, i), "TOTAL")

\* C10: for every grid in which no row matches a marker token and no row's
\* first column contains TOTAL, load_data returns no totals record (None),
\* never a record, zero-filled or other.
C10_NotFoundWithoutTotals ==
    (extracted.called /\ NoMarkerRow(grid) /\ NoTotalRow(grid)) =>
        extracted.totals = NoFrame

\* load_data ran on a grid without markers and TOTAL rows that holds numbers
C10_Witness ==
    /\ extracted.called
    /\ NoMarkerRow(grid)
    /\ NoTotalRow(grid)
    /\ \E i \in 1..Len(grid) : \E j \in 1..Len(grid[i]) : grid[i][j].k = "num"
    /\ ~extracted.df.isNone

====
